---- MODULE Spec2Model ----
(***************************************************************************)
(* A model of the RideNet data-preprocessing scripts:                      *)
(*   extract_osm.py        RoadGraphExtractor (node/way handlers),         *)
(*                         generate_road_graph, extract_largest_subgraph   *)
(*   preprocess.py         add_edge_distances and its __main__             *)
(*   preprocessing_utils.py load_graph, save_graph                         *)
(*                                                                         *)
(* Python objects that are shared by reference are modelled with heaps:    *)
(* `geoms` holds the list objects built as segment_geometry, `dicts` the   *)
(* dict objects built as edge_attrs; an edge of the extractor's edge list  *)
(* holds a reference (an index) into `dicts`, and a dict holds a reference *)
(* into `geoms`.  A networkx edge owns a dict of its own (add_edge builds  *)
(* one per edge and copies the keyword arguments into it), so a graph edge *)
(* carries its dict by value and its geometry list by reference.           *)
(***************************************************************************)
EXTENDS Integers, Sequences, FiniteSets, TLC

(***************************************************************************)
(* Bounds of the model.                                                    *)
(***************************************************************************)
MaxNodeId == 2
MaxWayLen == 3
MaxSegments == 2
MaxLoadedEdges == 2
MaxGraphNodes == 3
MaxGraphEdges == 2

NodeIds == 1..MaxNodeId

\* Python's None, and the value of a variable not assigned yet.
None == [ type |-> "NoneType" ]
Unset == [ type |-> "unset" ]

(***************************************************************************)
(* The bounding box handed to RoadGraphExtractor.__init__ (the value of    *)
(* retrieve_boundary), on an integer grid.                                 *)
(***************************************************************************)
min_lon == 1
min_lat == 1
max_lon == 2
max_lat == 2

\* Coordinates <<lon, lat>> a node element may carry: the two corners of the
\* box, and one point beyond each of its four sides.
Points == { <<1, 1>>, <<2, 2>>, <<0, 1>>, <<3, 2>>, <<1, 0>>, <<2, 3>> }

\* The content of data/processed/road_types.txt after _load_valid_road_types.
valid_road_types == { "primary", "residential" }

\* Values of the highway and oneway tags a way element may carry.
HighwayValues == { "primary", "residential", "footway" }
OnewayValues == { "yes", "TRUE", "1", "no" }

\* way.tags: a mapping from tag names to values; either tag may be absent.
TagMaps ==
    { [k \in {} |-> ""] }
    \cup { ("highway" :> h) : h \in HighwayValues }
    \cup { ("oneway" :> o) : o \in OnewayValues }
    \cup { ("highway" :> h) @@ ("oneway" :> o) : h \in HighwayValues, o \in OnewayValues }

\* way.nodes: the node references of a way, in order.
RefLists == UNION { [1..n -> NodeIds] : n \in 0..MaxWayLen }

NodeElements == { [ id |-> i, lon |-> p[1], lat |-> p[2] ] : i \in NodeIds, p \in Points }
WayElements == [ tags : TagMaps, nodes : RefLists ]

VARIABLES
    nodes,            \* RoadGraphExtractor.nodes: insertion-ordered id -> (lon, lat)
    edges,            \* RoadGraphExtractor.edges: list of (source, target, attrs ref)
    dicts,            \* heap of edge_attrs dict objects
    geoms,            \* heap of geometry list objects
    pc,               \* position of the running script
    element,          \* the element the parser hands to a handler
    graph,            \* the assembled nx.MultiDiGraph (argument of the reducer)
    largest_subgraph, \* the value extract_largest_subgraph returns
    road_graph,       \* preprocess.py: the value load_graph returned / annotated
    input_file,       \* preprocess.py: content of INPUT_GRAPH_FILE
    output_file,      \* content of the output pickle file
    ret,              \* what the caller of save_graph receives
    log,              \* level of the last record save_graph / load_graph logged
    error             \* exception that ended the script, if any

vars == << nodes, edges, dicts, geoms, pc, element, graph, largest_subgraph, road_graph,
           input_file, output_file, ret, log, error >>

(***************************************************************************)
(* RoadGraphExtractor                                                      *)
(***************************************************************************)

\* `tbl` is a Python dict kept as the sequence of its items in insertion order.
Keys(tbl) == { tbl[i].id : i \in 1..Len(tbl) }

Lookup(tbl, id) == (CHOOSE i \in 1..Len(tbl) : tbl[i].id = id)

\* tbl[id]
Get(tbl, id) == tbl[Lookup(tbl, id)].coords

\* tbl[id] = coords: a new key goes last, an old key keeps its place.
Put(tbl, id, coords) ==
    IF id \in Keys(tbl)
        THEN [tbl EXCEPT ![Lookup(tbl, id)].coords = coords]
        ELSE Append(tbl, [id |-> id, coords |-> coords])

\* InBox with the latitude test left out: C2 fails of it.
InBoxLonOnly(lon, lat) ==
    min_lon <= lon /\ lon <= max_lon

\* self.min_lon <= node.lon <= self.max_lon and self.min_lat <= node.lat <= self.max_lat
InBox(lon, lat) ==
    min_lon <= lon /\ lon <= max_lon /\ min_lat <= lat /\ lat <= max_lat

\* RoadGraphExtractor.node
node(n) ==
    /\ nodes' = IF InBox(n.lon, n.lat) THEN Put(nodes, n.id, << n.lon, n.lat >>) ELSE nodes
    /\ UNCHANGED << edges, dicts, geoms >>

\* str.lower on the tag values of OnewayValues.
Lower(s) ==
    CASE s = "TRUE" -> "true"
      [] OTHER -> s

\* way.tags.get('oneway', 'no')
TagGet(tags, key, default) == IF key \in DOMAIN tags THEN tags[key] ELSE default

\* Oneway without the call of lower(): C6 fails of it.
OnewayNoLower(tags) == TagGet(tags, "oneway", "no") \in { "yes", "true", "1" }

\* oneway = way.tags.get('oneway', 'no').lower() in ['yes', 'true', '1']
Oneway(tags) == Lower(TagGet(tags, "oneway", "no")) \in { "yes", "true", "1" }

\* The body of the loop over zip(nodes[:-1], nodes[1:]) for one pair: `st` is
\* the record of edges, dicts and geoms so far.
Segment(st, tbl, start, end, road_type, oneway) ==
    IF start \in Keys(tbl) /\ end \in Keys(tbl)
        THEN LET segment_geometry == << Get(tbl, start), Get(tbl, end) >>
                 g == Len(st.geoms) + 1
                 d == Len(st.dicts) + 1
                 edge_attrs == [highway |-> road_type, geometry |-> g]
                 edge == [source |-> start, target |-> end, attrs |-> d]
                 appended == Append(st.edges, edge)
             IN  [ geoms |-> Append(st.geoms, segment_geometry),
                   dicts |-> Append(st.dicts, edge_attrs),
                   edges |-> IF ~oneway
                                THEN Append(appended, [source |-> end, target |-> start, attrs |-> d])
                                ELSE appended ]
        ELSE st

\* for start, end in zip(nodes[:-1], nodes[1:]): pairs i, i+1 from position i on.
RECURSIVE Segments(_, _, _, _, _, _)
Segments(st, tbl, refs, i, road_type, oneway) ==
    IF i >= Len(refs)
        THEN st
        ELSE Segments(Segment(st, tbl, refs[i], refs[i + 1], road_type, oneway),
                      tbl, refs, i + 1, road_type, oneway)

\* The extractor's edge list and heaps after RoadGraphExtractor.way(w), from
\* the edge list and heaps `st` and the node table `tbl`.
WayResult(st, tbl, w) ==
    IF "highway" \in DOMAIN w.tags
        THEN LET road_type == w.tags["highway"]
             IN  IF road_type \notin valid_road_types
                     THEN st
                     ELSE Segments(st, tbl, w.nodes, 1, road_type, Oneway(w.tags))
        ELSE st

\* RoadGraphExtractor.way
way(w) ==
    /\ UNCHANGED nodes
    /\ LET st == WayResult([ edges |-> edges, dicts |-> dicts, geoms |-> geoms ], nodes, w)
       IN  /\ edges' = st.edges
           /\ dicts' = st.dicts
           /\ geoms' = st.geoms

\* extractor.apply_file(osm_file): the parser calls the handler of each
\* element of the file.
apply_file_node ==
    /\ pc = "stream"
    /\ \E n \in NodeElements : node(n)
    /\ UNCHANGED << pc, element, graph, largest_subgraph, road_graph,
                    input_file, output_file, ret, log, error >>

apply_file_way ==
    /\ pc = "stream"
    /\ \E w \in WayElements : way(w)
    /\ Len(dicts') <= MaxSegments
    /\ UNCHANGED << pc, element, graph, largest_subgraph, road_graph,
                    input_file, output_file, ret, log, error >>

(***************************************************************************)
(* nx.MultiDiGraph: the nodes in insertion order with their attribute      *)
(* dicts, the edges as the set of (u, v, key) entries of the adjacency     *)
(* structure with their attribute dicts, and the graph attributes.         *)
(***************************************************************************)

EmptyDict == [ k \in {} |-> 0 ]

\* nx.MultiDiGraph()
EmptyGraph == [ type |-> "MultiDiGraph", nodes |-> << >>, edges |-> {}, crs |-> "unset" ]

NodeSet(G) == { G.nodes[i].id : i \in 1..Len(G.nodes) }

\* DiGraph.add_node(n, **attr): a new node is added with attr, a node already
\* there has its attributes updated.
add_node(G, n, attr) ==
    IF n \in NodeSet(G)
        THEN LET i == CHOOSE j \in 1..Len(G.nodes) : G.nodes[j].id = n
             IN  [G EXCEPT !.nodes[i].attrs = attr @@ G.nodes[i].attrs]
        ELSE [G EXCEPT !.nodes = Append(G.nodes, [id |-> n, attrs |-> attr])]

\* MultiGraph.new_edge_key(u, v): len(keydict), raised while it is in use.
RECURSIVE FreeKey(_, _)
FreeKey(used, key) == IF key \in used THEN FreeKey(used, key + 1) ELSE key

new_edge_key(G, u, v) ==
    LET used == { e.key : e \in { f \in G.edges : f.u = u /\ f.v = v } }
    IN  FreeKey(used, Cardinality(used))

\* MultiDiGraph.add_edge(u, v, **attr): endpoints not in the graph are added
\* without attributes; the edge gets the next free key and a dict of its own
\* holding the keyword arguments.
add_edge(G, u, v, attr) ==
    LET G1 == IF u \in NodeSet(G) THEN G ELSE add_node(G, u, EmptyDict)
        G2 == IF v \in NodeSet(G1) THEN G1 ELSE add_node(G1, v, EmptyDict)
    IN  [G2 EXCEPT !.edges = G2.edges \cup
            { [u |-> u, v |-> v, key |-> new_edge_key(G2, u, v), attrs |-> attr] }]

\* for node_id, coords in extractor.nodes.items(): graph.add_node(node_id, x=coords[0], y=coords[1])
RECURSIVE AddNodes(_, _, _)
AddNodes(G, tbl, i) ==
    IF i > Len(tbl)
        THEN G
        ELSE AddNodes(add_node(G, tbl[i].id,
                               ("x" :> tbl[i].coords[1]) @@ ("y" :> tbl[i].coords[2])),
                      tbl, i + 1)

\* **attr: the items of the dict object `d` of the heap, as keyword arguments.
Kwargs(heap, d) ==
    ("highway" :> heap[d].highway) @@ ("geometry" :> heap[d].geometry)

\* for source, target, attr in extractor.edges: graph.add_edge(source, target, **attr)
RECURSIVE AddEdges(_, _, _, _)
AddEdges(G, es, heap, i) ==
    IF i > Len(es)
        THEN G
        ELSE AddEdges(add_edge(G, es[i].source, es[i].target, Kwargs(heap, es[i].attrs)),
                      es, heap, i + 1)

\* generate_road_graph, from nx.MultiDiGraph() to graph.graph["crs"] = "epsg:4326".
BuildGraph(tbl, es, heap) ==
    [ AddEdges(AddNodes(EmptyGraph, tbl, 1), es, heap, 1) EXCEPT !.crs = "epsg:4326" ]

assemble ==
    /\ pc = "stream"
    /\ graph' = BuildGraph(nodes, edges, dicts)
    /\ pc' = "assembled"
    /\ UNCHANGED << nodes, edges, dicts, geoms, element, largest_subgraph, road_graph,
                    input_file, output_file, ret, log, error >>

(***************************************************************************)
(* extract_largest_subgraph                                                *)
(***************************************************************************)

\* Neighbours following edges forwards only: C3 fails of it.
SuccessorsOnly(G, n) == { e.v : e \in { f \in G.edges : f.u = n } }

\* The neighbours _plain_bfs visits from n: successors and predecessors.
Neighbours(G, n) ==
    { e.v : e \in { f \in G.edges : f.u = n } }
    \cup { e.u : e \in { f \in G.edges : f.v = n } }

\* _plain_bfs(G, source): the nodes reached from `frontier`, `seen` included.
RECURSIVE plain_bfs(_, _, _)
plain_bfs(G, frontier, seen) ==
    IF frontier = {}
        THEN seen
        ELSE LET next == (UNION { Neighbours(G, n) : n \in frontier }) \ seen
             IN  plain_bfs(G, next, seen \cup next)

\* nx.weakly_connected_components(G): for v in G, if v was not seen, yield the
\* set _plain_bfs reaches from v.
RECURSIVE Components(_, _, _)
Components(G, i, seen) ==
    IF i > Len(G.nodes)
        THEN << >>
        ELSE LET v == G.nodes[i].id
             IN  IF v \in seen
                     THEN Components(G, i + 1, seen)
                     ELSE LET c == plain_bfs(G, {v}, {v})
                          IN  << c >> \o Components(G, i + 1, seen \cup c)

weakly_connected_components(G) == Components(G, 1, {})

\* MaxByLen keeping the last of the longest items: C4 fails of it.
MaxLast(cs) ==
    LET best == CHOOSE i \in 1..Len(cs) :
                    /\ \A j \in 1..Len(cs) : Cardinality(cs[j]) <= Cardinality(cs[i])
                    /\ \A j \in (i + 1)..Len(cs) : Cardinality(cs[j]) < Cardinality(cs[i])
    IN  cs[best]

\* max(components, key=len) on a non-empty iterable: the first item no other
\* item is longer than.
MaxByLen(cs) ==
    LET best == CHOOSE i \in 1..Len(cs) :
                    /\ \A j \in 1..Len(cs) : Cardinality(cs[j]) <= Cardinality(cs[i])
                    /\ \A j \in 1..(i - 1) : Cardinality(cs[j]) < Cardinality(cs[i])
    IN  cs[best]

\* graph.subgraph(c).copy(): the nodes of c with their attributes, every edge
\* (u, v, key) with both ends in c under the same key with a copy of its
\* dict, and the graph attributes.  The nodes are kept in the order of G; the
\* properties below read the node set of the copy, never its order.
SubgraphCopy(G, c) ==
    [ type  |-> "MultiDiGraph",
      nodes |-> SelectSeq(G.nodes, LAMBDA n : n.id \in c),
      edges |-> { e \in G.edges : e.u \in c /\ e.v \in c },
      crs   |-> G.crs ]

\* extract_largest_subgraph(graph), called at generate_road_graph line 110:
\* max() of an empty iterable raises ValueError, which nothing catches.
reduce ==
    /\ pc = "assembled"
    /\ LET cs == weakly_connected_components(graph)
       IN  IF Len(cs) = 0
               THEN /\ pc' = "failed"
                    /\ error' = "ValueError"
                    /\ UNCHANGED largest_subgraph
               ELSE /\ largest_subgraph' = SubgraphCopy(graph, MaxByLen(cs))
                    /\ pc' = "reduced"
                    /\ UNCHANGED error
    /\ UNCHANGED << nodes, edges, dicts, geoms, element, graph, road_graph,
                    input_file, output_file, ret, log >>

(***************************************************************************)
(* preprocessing_utils.save_graph / load_graph                             *)
(***************************************************************************)

\* pickle.dump(graph, f): the file holds the graph and the list objects its
\* edges refer to.
Pickle(G, heap) == [ format |-> "pickle", graph |-> G, geoms |-> heap ]

\* save_graph(G, output_file).  `ok` is whether open() and pickle.dump()
\* succeed; when they do not, the file is left as it was (open failed) or
\* truncated (dump failed), the exception is caught and logged, and the
\* function returns None as it does on success.
save_graph(G, ok, truncated) ==
    /\ IF ok
           THEN /\ output_file' = Pickle(G, geoms)
                /\ log' = "info"
           ELSE /\ output_file' = IF truncated THEN [ format |-> "truncated" ] ELSE output_file
                /\ log' = "error"
    /\ ret' = None

\* generate_road_graph line 112.
save_reduced ==
    /\ pc = "reduced"
    /\ \E ok \in BOOLEAN, truncated \in BOOLEAN : save_graph(largest_subgraph, ok, truncated)
    /\ pc' = "saved"
    /\ UNCHANGED << nodes, edges, dicts, geoms, element, graph, largest_subgraph, road_graph,
                    input_file, error >>

(***************************************************************************)
(* preprocess.py                                                           *)
(***************************************************************************)

\* load_graph(INPUT_GRAPH_FILE): a file that is missing or does not unpickle
\* to a graph makes an exception that is caught and logged, and None is
\* returned.
load ==
    /\ pc = "start"
    /\ IF input_file.format = "pickle"
           THEN /\ road_graph' = input_file.graph
                /\ geoms' = input_file.geoms
                /\ log' = "info"
           ELSE /\ road_graph' = None
                /\ log' = "error"
                /\ UNCHANGED geoms
    /\ pc' = "loaded"
    /\ UNCHANGED << nodes, edges, dicts, element, graph, largest_subgraph,
                    input_file, output_file, ret, error >>

\* geodesic(start_coords, end_coords).meters on the integer grid: the squared
\* Euclidean distance stands for the ellipsoidal one (symmetric, and zero
\* exactly for equal points).  Its arguments are (lat, lon) pairs.
Geodesic(a, b) == (a[1] - b[1]) * (a[1] - b[1]) + (a[2] - b[2]) * (a[2] - b[2])

\* TwoPointGeometry with >= for ==: C10 fails of it.
AtLeastTwoPointGeometry(data) ==
    "geometry" \in DOMAIN data /\ Len(geoms[data["geometry"]]) >= 2

\* 'geometry' in data and len(data['geometry']) == 2
TwoPointGeometry(data) ==
    "geometry" \in DOMAIN data /\ Len(geoms[data["geometry"]]) = 2

\* The body of the loop of add_edge_distances for one edge.
AnnotateEdge(e) ==
    IF TwoPointGeometry(e.attrs)
        THEN LET geometry == geoms[e.attrs["geometry"]]
                 start_coords == << geometry[1][2], geometry[1][1] >>
                 end_coords == << geometry[2][2], geometry[2][1] >>
                 distance == Geodesic(start_coords, end_coords)
             IN  [e EXCEPT !.attrs = ("distance" :> distance) @@ e.attrs]
        ELSE e

\* add_edge_distances(G)
add_edge_distances(G) == [G EXCEPT !.edges = { AnnotateEdge(e) : e \in G.edges }]

\* road_graph = add_edge_distances(road_graph): on None, graph.edges raises
\* AttributeError, which nothing catches.
annotate ==
    /\ pc = "loaded"
    /\ IF road_graph = None
           THEN /\ pc' = "failed"
                /\ error' = "AttributeError"
                /\ UNCHANGED road_graph
           ELSE /\ road_graph' = add_edge_distances(road_graph)
                /\ pc' = "annotated"
                /\ UNCHANGED error
    /\ UNCHANGED << nodes, edges, dicts, geoms, element, graph, largest_subgraph,
                    input_file, output_file, ret, log >>

\* save_graph(road_graph, OUTPUT_GRAPH_FILE)
save_annotated ==
    /\ pc = "annotated"
    /\ \E ok \in BOOLEAN, truncated \in BOOLEAN : save_graph(road_graph, ok, truncated)
    /\ pc' = "saved"
    /\ UNCHANGED << nodes, edges, dicts, geoms, element, graph, largest_subgraph, road_graph,
                    input_file, error >>

(***************************************************************************)
(* extract_osm.py run as a script: the parser delivers node and way        *)
(* elements to the handlers, then the graph is assembled, reduced, saved.  *)
(***************************************************************************)

Init ==
    /\ nodes = << >>
    /\ edges = << >>
    /\ dicts = << >>
    /\ geoms = << >>
    /\ pc = "stream"
    /\ element = Unset
    /\ graph = Unset
    /\ largest_subgraph = Unset
    /\ road_graph = Unset
    /\ input_file = Unset
    /\ output_file = [ format |-> "missing" ]
    /\ ret = Unset
    /\ log = "unset"
    /\ error = "none"

Next ==
    \/ apply_file_node
    \/ apply_file_way
    \/ assemble
    \/ reduce
    \/ save_reduced

Spec == Init /\ [][Next]_vars

(***************************************************************************)
(* The handlers as functions of the extractor's state and one element: the *)
(* node table is any table the node handler can have built, the edge list  *)
(* is empty or what one earlier accepted way left, and the parser hands    *)
(* one more element to its handler.                                        *)
(***************************************************************************)

InPoints == { p \in Points : InBox(p[1], p[2]) }

Tables ==
    { t \in UNION { [1..k -> [id : NodeIds, coords : InPoints]] : k \in 0..MaxNodeId } :
        \A i, j \in 1..Len(t) : i # j => t[i].id # t[j].id }

EarlierWays ==
    { w \in WayElements :
        /\ Len(w.nodes) = 2
        /\ w.tags \in { "highway" :> "primary", ("highway" :> "primary") @@ ("oneway" :> "yes") } }

EarlierEdges(tbl) ==
    { [ edges |-> << >>, dicts |-> << >>, geoms |-> << >> ] }
    \cup { WayResult([ edges |-> << >>, dicts |-> << >>, geoms |-> << >> ], tbl, w) :
             w \in EarlierWays }

InitHandler ==
    /\ nodes \in Tables
    /\ \E st \in EarlierEdges(nodes) :
          /\ edges = st.edges
          /\ dicts = st.dicts
          /\ geoms = st.geoms
    /\ pc = "deliver"
    /\ element \in NodeElements \cup WayElements
    /\ graph = Unset
    /\ largest_subgraph = Unset
    /\ road_graph = Unset
    /\ input_file = Unset
    /\ output_file = [ format |-> "missing" ]
    /\ ret = Unset
    /\ log = "unset"
    /\ error = "none"

handle_node ==
    /\ pc = "deliver"
    /\ "id" \in DOMAIN element
    /\ node(element)
    /\ pc' = "handled"
    /\ UNCHANGED << element, graph, largest_subgraph, road_graph,
                    input_file, output_file, ret, log, error >>

handle_way ==
    /\ pc = "deliver"
    /\ "tags" \in DOMAIN element
    /\ way(element)
    /\ pc' = "handled"
    /\ UNCHANGED << element, graph, largest_subgraph, road_graph,
                    input_file, output_file, ret, log, error >>

NextHandler ==
    \/ handle_node
    \/ handle_way

HandlerSpec == InitHandler /\ [][NextHandler]_vars

(***************************************************************************)
(* extract_largest_subgraph as a function of its argument: the argument    *)
(* ranges over the multigraphs add_node and add_edge build from at most    *)
(* MaxGraphNodes nodes and MaxGraphEdges edges.                            *)
(***************************************************************************)

GraphIds == 1..MaxGraphNodes

NodeOrders ==
    { s \in UNION { [1..k -> GraphIds] : k \in 0..MaxGraphNodes } :
        \A i, j \in 1..Len(s) : i # j => s[i] # s[j] }

EdgeLists == UNION { [1..m -> GraphIds \X GraphIds] : m \in 0..MaxGraphEdges }

InputGraph(s, l) ==
    BuildGraph([ i \in 1..Len(s) |-> [id |-> s[i], coords |-> << 1, 1 >>] ],
               [ i \in 1..Len(l) |-> [source |-> l[i][1], target |-> l[i][2], attrs |-> 1] ],
               << [highway |-> "primary", geometry |-> 1] >>)

InputGraphs == { InputGraph(s, l) : s \in NodeOrders, l \in EdgeLists }

InitReduce ==
    /\ nodes = << >>
    /\ edges = << >>
    /\ dicts = << [highway |-> "primary", geometry |-> 1] >>
    /\ geoms = << << << 1, 1 >>, << 1, 1 >> >> >>
    /\ pc = "assembled"
    /\ element = Unset
    /\ graph \in InputGraphs
    /\ largest_subgraph = Unset
    /\ road_graph = Unset
    /\ input_file = Unset
    /\ output_file = [ format |-> "missing" ]
    /\ ret = Unset
    /\ log = "unset"
    /\ error = "none"

NextReduce == reduce

ReduceSpec == InitReduce /\ [][NextReduce]_vars

(***************************************************************************)
(* preprocess.py run as a script.  INPUT_GRAPH_FILE is missing, is not a   *)
(* pickle of a graph, or holds a graph whose edges carry a highway and a   *)
(* geometry of zero to three points, only a highway, or no attribute; an   *)
(* edge carries a distance only where an earlier annotation put one.       *)
(***************************************************************************)

FileGeoms ==
    << << >>,
       << << 1, 1 >> >>,
       << << 1, 1 >>, << 2, 2 >> >>,
       << << 2, 2 >>, << 2, 2 >> >>,
       << << 1, 1 >>, << 2, 2 >>, << 1, 1 >> >> >>

\* An edge dict of the file: empty, a highway alone, a highway and a geometry,
\* or what an earlier annotation left (a distance beside a two-point geometry).
FileDicts ==
    { EmptyDict, "highway" :> "primary" }
    \cup { ("highway" :> "primary") @@ ("geometry" :> r) : r \in 1..Len(FileGeoms) }
    \cup { ("highway" :> "primary") @@ ("geometry" :> 3) @@ ("distance" :> 99) }

FileEdgeLists ==
    UNION { [1..m -> [u : 1..2, v : 1..2, attrs : FileDicts]] : m \in 0..MaxLoadedEdges }

RECURSIVE FileGraph(_, _, _)
FileGraph(G, l, i) ==
    IF i > Len(l)
        THEN G
        ELSE FileGraph(add_edge(G, l[i].u, l[i].v, l[i].attrs), l, i + 1)

InputFiles ==
    { [ format |-> "missing" ], [ format |-> "garbage" ] }
    \cup { Pickle(FileGraph(add_node(EmptyGraph, 1, ("x" :> 1) @@ ("y" :> 1)), l, 1), FileGeoms) :
             l \in FileEdgeLists }

InitPre ==
    /\ nodes = << >>
    /\ edges = << >>
    /\ dicts = << >>
    /\ geoms = << >>
    /\ pc = "start"
    /\ element = Unset
    /\ graph = Unset
    /\ largest_subgraph = Unset
    /\ road_graph = Unset
    /\ input_file \in InputFiles
    /\ output_file = [ format |-> "missing" ]
    /\ ret = Unset
    /\ log = "unset"
    /\ error = "none"

NextPre ==
    \/ load
    \/ annotate
    \/ save_annotated

PreSpec == InitPre /\ [][NextPre]_vars
(***************************************************************************)
(* Definitions the properties below are stated with.                       *)
(***************************************************************************)

\* The geometry list and the road type an edge of the extractor's list holds.
GeometryOf(es, dh, gh, k) == gh[dh[es[k].attrs].geometry]
HighwayOf(es, dh, k) == dh[es[k].attrs].highway

\* A way is accepted when it has a road-classification tag of the accepted set.
AcceptedWay(w) ==
    "highway" \in DOMAIN w.tags /\ w.tags["highway"] \in { "primary", "residential" }

\* A way is oneway when its oneway tag is yes, true or 1 in any letter case.
OnewayWay(w) ==
    /\ "oneway" \in DOMAIN w.tags
    /\ w.tags["oneway"] \in { "yes", "Yes", "YES", "true", "True", "TRUE", "1" }

\* The positions i of a way's node list whose pair (i, i+1) has both ids in
\* the node table.
PairsInTable(w) ==
    { i \in 1..(Len(w.nodes) - 1) :
        /\ \E k \in 1..Len(nodes) : nodes[k].id = w.nodes[i]
        /\ \E k \in 1..Len(nodes) : nodes[k].id = w.nodes[i + 1] }

CoordsOf(id) == nodes[CHOOSE k \in 1..Len(nodes) : nodes[k].id = id].coords

\* The parser hands a way element to the way handler in this step.
WayHandled == pc = "deliver" /\ pc' = "handled" /\ "tags" \in DOMAIN element

\* C1: for every non-oneway accepted way and every consecutive pair the
\* handler emits a forward edge for, the edge list afterwards also holds a
\* reverse edge end->start with the same road type whose geometry is the
\* forward geometry reversed (end coordinates first, start coordinates second).
C1_ReverseEdgeReversed ==
    [][ (WayHandled /\ AcceptedWay(element) /\ ~OnewayWay(element)) =>
          \A i \in PairsInTable(element) :
              \E k \in 1..Len(edges') :
                  /\ edges'[k].source = element.nodes[i + 1]
                  /\ edges'[k].target = element.nodes[i]
                  /\ HighwayOf(edges', dicts', k) = element.tags["highway"]
                  /\ GeometryOf(edges', dicts', geoms', k)
                        = << CoordsOf(element.nodes[i + 1]), CoordsOf(element.nodes[i]) >> ]_vars

\* Whether a node element lies in the bounding box, bounds included.
Inside(n) ==
    min_lon <= n.lon /\ n.lon <= max_lon /\ min_lat <= n.lat /\ n.lat <= max_lat

\* C2: after any sequence of node and way elements every entry of the node
\* table lies in the bounding box, bounds included; a node element outside
\* the box leaves the table unchanged; a way element never changes the table.
C2_NodeTableInBox ==
    /\ [](\A i \in 1..Len(nodes) :
            /\ min_lon <= nodes[i].coords[1] /\ nodes[i].coords[1] <= max_lon
            /\ min_lat <= nodes[i].coords[2] /\ nodes[i].coords[2] <= max_lat)
    /\ [][ (nodes' # nodes) =>
             /\ \A n \in NodeElements : node(n) => Inside(n)
             /\ \A w \in WayElements : ~way(w) ]_vars

\* Both corners of the box are in the node table, and ways have been handled.
C2_Witness ==
    /\ \E i \in 1..Len(nodes) : nodes[i].coords = << min_lon, min_lat >>
    /\ \E i \in 1..Len(nodes) : nodes[i].coords = << max_lon, max_lat >>
    /\ Len(edges) > 0

(***************************************************************************)
(* Weak connectivity, stated without the traversal of the reducer: a and b *)
(* are joined when a chain of edges, taken in either direction, leads from *)
(* a to b.                                                                 *)
(***************************************************************************)
Adjacent(G, a, b) == \E e \in G.edges : (e.u = a /\ e.v = b) \/ (e.u = b /\ e.v = a)

RECURSIVE Within(_, _, _)
Within(G, a, n) ==
    IF n = 0
        THEN { a }
        ELSE LET r == Within(G, a, n - 1)
             IN  r \cup { b \in NodeSet(G) : \E c \in r : Adjacent(G, c, b) }

Joined(G, a) == Within(G, a, Len(G.nodes))

\* The weakly connected components of G.
ComponentsOf(G) == { Joined(G, a) : a \in NodeSet(G) }

\* The place in the component enumeration: that of the component's first
\* node in the graph's node order.
FirstNode(G, c) == CHOOSE i \in 1..Len(G.nodes) :
                       /\ G.nodes[i].id \in c
                       /\ \A j \in 1..(i - 1) : G.nodes[j].id \notin c

\* C3: the graph returned for a non-empty multigraph is weakly connected, its
\* node set is exactly one weakly connected component of the input, and its
\* edges are exactly the input edges with both ends in that node set,
\* parallel edges included.
C3_InducedComponent ==
    (pc = "reduced") =>
        LET N == NodeSet(largest_subgraph)
        IN  /\ N # {}
            /\ N \subseteq NodeSet(graph)
            /\ \A a \in N : Joined(largest_subgraph, a) = N
            /\ \A a \in N : Joined(graph, a) = N
            /\ \A a \in N, b \in NodeSet(graph) \ N : ~Adjacent(graph, a, b)
            /\ largest_subgraph.edges = { e \in graph.edges : e.u \in N /\ e.v \in N }
            /\ Len(largest_subgraph.nodes) = Cardinality(N)

\* A graph of several components and parallel edges has been reduced to a
\* component of more than one node that keeps two parallel edges.
C3_Witness ==
    /\ pc = "reduced"
    /\ Cardinality(ComponentsOf(graph)) > 1
    /\ Cardinality(NodeSet(largest_subgraph)) > 1
    /\ \E e, f \in largest_subgraph.edges : e.u = f.u /\ e.v = f.v /\ e.key # f.key

\* C4: the graph returned has at least as many nodes as every weakly
\* connected component of the input, and among the components of the greatest
\* size it is the first in enumeration order.
C4_LargestFirst ==
    (pc = "reduced") =>
        LET N == NodeSet(largest_subgraph)
        IN  /\ N \in ComponentsOf(graph)
            /\ \A c \in ComponentsOf(graph) :
                  /\ Cardinality(N) >= Cardinality(c)
                  /\ Cardinality(c) = Cardinality(N) => FirstNode(graph, N) <= FirstNode(graph, c)

\* Two components tie for the greatest size, the one returned is the earlier
\* of them in the node order, and it is not the one of the smallest node id.
C4_Witness ==
    /\ pc = "reduced"
    /\ \E c \in ComponentsOf(graph) :
          /\ c # NodeSet(largest_subgraph)
          /\ Cardinality(c) = Cardinality(NodeSet(largest_subgraph))
          /\ FirstNode(graph, NodeSet(largest_subgraph)) < FirstNode(graph, c)
          /\ \E a \in c : \A b \in NodeSet(largest_subgraph) : a < b

\* C5: when the assembled graph has no node, the reduction ends in a
\* dedicated error the reducer raises after checking for emptiness, not in
\* the failure of the largest-element selection over no components.
C5_ExplicitEmptyError ==
    (pc = "failed") => (error = "EmptyGraphError")

\* C6: a way without an accepted road-classification tag appends nothing; an
\* accepted way appends, for each consecutive pair with both ids in the node
\* table, one edge if it is oneway and otherwise the forward then the reverse
\* edge, and nothing for the other pairs; edges in the list are never removed
\* or reordered.
C6_WayAppends ==
    /\ [][ WayHandled =>
             LET w == element
                 old == Len(edges)
                 per == IF OnewayWay(w) THEN 1 ELSE 2
                 rank(i) == Cardinality({ j \in PairsInTable(w) : j < i })
                 count == IF AcceptedWay(w) THEN per * Cardinality(PairsInTable(w)) ELSE 0
             IN  /\ Len(edges') = old + count
                 /\ AcceptedWay(w) =>
                      \A i \in PairsInTable(w) :
                          LET k == old + per * rank(i) + 1
                          IN  /\ edges'[k].source = w.nodes[i]
                              /\ edges'[k].target = w.nodes[i + 1]
                              /\ HighwayOf(edges', dicts', k) = w.tags["highway"]
                              /\ ~OnewayWay(w) =>
                                    /\ edges'[k + 1].source = w.nodes[i + 1]
                                    /\ edges'[k + 1].target = w.nodes[i]
                                    /\ HighwayOf(edges', dicts', k + 1) = w.tags["highway"] ]_vars
    /\ [][ /\ Len(edges') >= Len(edges)
           /\ SubSeq(edges', 1, Len(edges)) = edges ]_vars

\* A way of two segments was handled behind an edge already in the list: it
\* appended the four edges of a two-way road, or the two of a oneway road.
C6_Witness ==
    /\ pc = "handled"
    /\ "tags" \in DOMAIN element
    /\ Len(element.nodes) = 3
    /\ \/ /\ Len(edges) = 5
          /\ edges[2].attrs = edges[3].attrs
          /\ edges[4].attrs = edges[5].attrs
       \/ /\ Len(edges) = 3
          /\ edges[2].attrs # edges[3].attrs
          /\ element.tags = ("highway" :> "residential") @@ ("oneway" :> "TRUE")

\* C7: a failed save is reported to the caller of save_graph (the caller
\* observes an error outcome or value), and a failed load is reported
\* instead of a non-graph value being handed to the distance annotation.
C7_PersistenceFailureReported ==
    /\ (pc = "saved" /\ log = "error") => (ret # None \/ error # "none")
    /\ ~(pc = "failed" /\ road_graph = None)

\* C8: every edge of the extractor's list has both ids in the node table and
\* its geometry is the pair (coordinates of source, coordinates of target) as
\* they stood when it was created; in the assembled graph every edge endpoint
\* is a node with x and y, and no node is outside the node table.
C8_EdgesWithinNodeTable ==
    /\ [](\A k \in 1..Len(edges) :
            /\ \E i \in 1..Len(nodes) : nodes[i].id = edges[k].source
            /\ \E i \in 1..Len(nodes) : nodes[i].id = edges[k].target)
    /\ [][ \A k \in (Len(edges) + 1)..Len(edges') :
             GeometryOf(edges', dicts', geoms', k)
                 = << CoordsOf(edges'[k].source), CoordsOf(edges'[k].target) >> ]_vars
    /\ [](pc = "assembled" =>
            /\ NodeSet(graph) = { nodes[i].id : i \in 1..Len(nodes) }
            /\ \A i \in 1..Len(graph.nodes) : DOMAIN graph.nodes[i].attrs = { "x", "y" }
            /\ \A e \in graph.edges : e.u \in NodeSet(graph) /\ e.v \in NodeSet(graph))

\* C9: the forward and the reverse edge of one segment never share their
\* attribute container or their geometry sequence, in the extractor's edge
\* list, the assembled graph and the reduced graph.
C9_IndependentStorage ==
    /\ \A i, j \in 1..Len(edges) :
          i # j => /\ edges[i].attrs # edges[j].attrs
                   /\ dicts[edges[i].attrs].geometry # dicts[edges[j].attrs].geometry
    /\ (pc \in { "assembled", "reduced", "saved" }) =>
          \A e, f \in graph.edges : e # f => e.attrs["geometry"] # f.attrs["geometry"]
    /\ (pc \in { "reduced", "saved" }) =>
          \A e, f \in largest_subgraph.edges : e # f => e.attrs["geometry"] # f.attrs["geometry"]

\* C10: add_edge_distances keeps the nodes, the edges and every attribute
\* other than distance, and afterwards an edge has a distance exactly when it
\* has a geometry of exactly two points.
C10_OnlyDistanceAdded ==
    [][ (pc = "loaded" /\ pc' = "annotated") =>
          /\ road_graph'.nodes = road_graph.nodes
          /\ road_graph'.crs = road_graph.crs
          /\ geoms' = geoms
          /\ Cardinality(road_graph'.edges) = Cardinality(road_graph.edges)
          /\ \A e \in road_graph.edges :
                \E f \in road_graph'.edges :
                    /\ f.u = e.u /\ f.v = e.v /\ f.key = e.key
                    /\ DOMAIN f.attrs \ { "distance" } = DOMAIN e.attrs \ { "distance" }
                    /\ \A a \in DOMAIN e.attrs \ { "distance" } : f.attrs[a] = e.attrs[a]
                    /\ ("distance" \in DOMAIN f.attrs) <=>
                          /\ "geometry" \in DOMAIN e.attrs
                          /\ \E p, q \in Points : geoms[e.attrs["geometry"]] = << p, q >> ]_vars

\* An annotated graph with an edge that got a distance beside an edge that
\* has no geometry, or a geometry of another length, and got none.
C10_Witness ==
    /\ pc = "annotated"
    /\ \E e \in road_graph.edges : "distance" \in DOMAIN e.attrs
    /\ \E e \in road_graph.edges :
          /\ "distance" \notin DOMAIN e.attrs
          /\ "geometry" \in DOMAIN e.attrs => Len(geoms[e.attrs["geometry"]]) = 3
====
